---- MODULE Spec2Model ----
(***************************************************************************)
(* Model of the generic decision-tree search engine of src/src/lib.rs:    *)
(* the Possibility tree (Leaf / Branch), the memoization Cache and the    *)
(* Solver facade, with the State / Evaluator traits instantiated by small *)
(* finite problems.  Values (f64 in src/src/main.rs) and weights are      *)
(* small integers, on which f64 arithmetic and comparison are exact.      *)
(***************************************************************************)
EXTENDS Integers, Sequences, FiniteSets, TLC

\* Number of Solver / Possibility calls made in one session.
MaxSteps == 3
\* Depths at which expand / evaluate / create are called directly: 0..MaxDepth.
MaxDepth == 1
\* Number of calls made in one session when the calls are run frame by frame.
MaxRuns == 2
\* Deepest frame the frame-by-frame run pushes; no run of the problems below
\* gets that deep.
MaxRunDepth == 12

(***************************************************************************)
(* The State and Evaluator instances (the external collaborators).        *)
(***************************************************************************)
States == {"A", "B", "C", "D", "E", "F", "G"}

\* Change values; a state uses a prefix of them, so 3 is a Change that no
\* state of the problems below offers.
Changes == {1, 2, 3}

Mv(w, c, t) == [weight |-> w, change |-> c, to |-> t]

\* Spec section 8 toy: A -> B (weight 1), A -> C (weight 1), B and C terminal,
\* evaluate(B) = 1, evaluate(C) = -1, mode(A) = Maximize, default contemplate.
Toy ==
    [ name    |-> "toy",
      root    |-> "A",
      moves   |-> [s \in States |->
                    IF s = "A" THEN << Mv(1, 1, "B"), Mv(1, 2, "C") >> ELSE << >>],
      score   |-> [s \in States |-> IF s = "B" THEN 1 ELSE IF s = "C" THEN -1 ELSE 0],
      modes   |-> [s \in States |-> "Maximize"],
      horizon |-> [s \in States |-> 9] ]

\* A transposition: D is reached through B and through C; weights 0, 1, 2.
Diamond ==
    [ name    |-> "diamond",
      root    |-> "A",
      moves   |-> [s \in States |->
                    CASE s = "A" -> << Mv(2, 1, "B"), Mv(1, 2, "C") >>
                      [] s = "B" -> << Mv(1, 1, "D"), Mv(0, 2, "E") >>
                      [] s = "C" -> << Mv(2, 1, "D"), Mv(1, 2, "E") >>
                      [] s = "D" -> << Mv(1, 1, "E") >>
                      [] OTHER   -> << >>],
      score   |-> [s \in States |->
                    CASE s = "A" -> 5 [] s = "B" -> 1 [] s = "C" -> -1
                      [] s = "D" -> 2 [] OTHER -> -2],
      modes   |-> [s \in States |-> IF s \in {"A", "D"} THEN "Maximize" ELSE "Minimize"],
      horizon |-> [s \in States |-> 9] ]

\* The same transposition searched with a depth-dependent contemplate.
Shallow == [Diamond EXCEPT !.name = "shallow", !.horizon = [s \in States |-> 2]]

\* A transition graph with cycles (A -> B -> A, B -> D -> A), searched with a
\* depth-dependent contemplate, which is what bounds the search on it.
Cycle ==
    [ name    |-> "cycle",
      root    |-> "C",
      moves   |-> [s \in States |->
                    CASE s = "C" -> << Mv(1, 1, "A") >>
                      [] s = "A" -> << Mv(1, 1, "B") >>
                      [] s = "B" -> << Mv(1, 1, "A"), Mv(2, 2, "D") >>
                      [] s = "D" -> << Mv(1, 1, "A"), Mv(1, 2, "E") >>
                      [] OTHER   -> << >>],
      score   |-> [s \in States |->
                    CASE s = "A" -> 1 [] s = "B" -> -1 [] s = "C" -> 0
                      [] s = "D" -> 2 [] OTHER -> -2],
      modes   |-> [s \in States |-> IF s \in {"A", "C"} THEN "Maximize" ELSE "Minimize"],
      horizon |-> [s \in States |-> 4] ]

\* A contemplate that depends on the state: B is never looked into.
Guarded ==
    [ name    |-> "guarded",
      root    |-> "A",
      moves   |-> [s \in States |->
                    CASE s = "A" -> << Mv(1, 1, "B"), Mv(2, 2, "C") >>
                      [] s = "B" -> << Mv(1, 1, "D") >>
                      [] s = "C" -> << Mv(0, 1, "D"), Mv(1, 2, "E") >>
                      [] s = "D" -> << Mv(2, 1, "E") >>
                      [] OTHER   -> << >>],
      score   |-> [s \in States |->
                    CASE s = "A" -> 0 [] s = "B" -> 3 [] s = "C" -> -3
                      [] s = "D" -> 1 [] OTHER -> -1],
      modes   |-> [s \in States |-> IF s \in {"B", "C"} THEN "Maximize" ELSE "Minimize"],
      horizon |-> [s \in States |-> IF s = "B" THEN 0 ELSE 9] ]

\* A chain B -> C -> D -> E -> F -> G that the root enters at B, at D and at C,
\* searched four levels deep: C and D are found in the cache when the root's
\* second and third child are created.
Chain ==
    [ name    |-> "chain",
      root    |-> "A",
      moves   |-> [s \in States |->
                    CASE s = "A" -> << Mv(1, 1, "B"), Mv(1, 2, "D"), Mv(1, 3, "C") >>
                      [] s = "B" -> << Mv(1, 1, "C") >>
                      [] s = "C" -> << Mv(1, 1, "D") >>
                      [] s = "D" -> << Mv(1, 1, "E") >>
                      [] s = "E" -> << Mv(1, 1, "F") >>
                      [] s = "F" -> << Mv(1, 1, "G") >>
                      [] OTHER   -> << >>],
      score   |-> [s \in States |-> IF s = "G" THEN 1 ELSE 0],
      modes   |-> [s \in States |-> "Maximize"],
      horizon |-> [s \in States |-> 4] ]

Problems == {Toy, Diamond, Shallow, Cycle, Guarded, Chain}

VARIABLES
    problem,    \* the State / Evaluator instance of the session
    tree,       \* Solver.tree
    cache,      \* Solver.cache
    status,     \* "ok", or "panic" once a call has panicked
    call,       \* the last call made: [op, change, depth, state]
    ret,        \* what the last call returned
    before,     \* tree, cache, call record and result as they were when the last call was made
    log,        \* the cache hits and inserts of the last call, in order
    served,     \* per state, the Possibility its first cache hit in create returned
    steps,      \* calls made so far
    stack       \* the frames of the call that is running, innermost last

vars == << problem, tree, cache, status, call, ret, before, log, served, steps, stack >>

\* State::changes
changes(s) == problem.moves[s]

\* State::apply; a Change that changes() does not yield leaves the state alone
apply(s, c) ==
    LET ix == {i \in 1..Len(changes(s)) : changes(s)[i].change = c}
    IN IF ix = {} THEN s ELSE changes(s)[CHOOSE i \in ix : \A j \in ix : i <= j].to

\* Evaluator::evaluate
evaluate(s) == problem.score[s]

\* Evaluator::mode
mode(s) == problem.modes[s]

\* Mutant of contemplate: the default of the trait on every problem
contemplateAlways(s, depth) == TRUE

\* Evaluator::contemplate
contemplate(s, depth) == depth < problem.horizon[s]

(***************************************************************************)
(* Possibility and Cache.                                                  *)
(***************************************************************************)
\* Possibility::Leaf { state, value }
Leaf(s, v) == [kind |-> "Leaf", state |-> s, value |-> v, children |-> << >>]

\* Possibility::Branch { state, children }; children are (Change, f64, Possibility)
Branch(s, ch) == [kind |-> "Branch", state |-> s, value |-> 0, children |-> ch]

\* Absent entry of the HashMap (cache.get returns None)
None == [kind |-> "None", state |-> "-", value |-> 0, children |-> << >>]

\* HashMap::new
EmptyCache == [s \in States |-> None]

\* The mutable context every operation threads: the cache, the log of its hits
\* and inserts, the number of State / Evaluator calls made, the panic raised.
Cx(c) == [cache |-> c, log |-> << >>, work |-> 0, panic |-> ""]

Work(cx, n) == [cx EXCEPT !.work = @ + n]

Ev(kind, s, depth, old, new) ==
    [ev |-> kind, state |-> s, depth |-> depth, old |-> old, new |-> new]

(***************************************************************************)
(* Possibility::create and Possibility::expand.                            *)
(***************************************************************************)
RECURSIVE Create(_, _, _), CreateChildren(_, _, _, _)
RECURSIVE Expand(_, _, _), ExpandChildren(_, _, _)
RECURSIVE Evaluate(_, _, _), EvaluateChildren(_, _, _, _, _)

\* The element of a singleton set.  The({ F(x) : x \in {e} }) is `let x = e`:
\* e is computed once, as the code computes it.
The(S) == CHOOSE x \in S : TRUE

\* Mutant of CacheInsert: a cache that holds three entries is emptied before
\* the next one is inserted
CacheInsertBounded(cx, s, re, depth) ==
    [cx EXCEPT !.cache = [(IF Cardinality({t \in States : cx.cache[t] # None}) >= 3
                           THEN EmptyCache ELSE cx.cache) EXCEPT ![s] = re],
               !.log = Append(@, Ev("insert", s, depth, cx.cache[s], re))]

\* cache.insert(state, re.clone())
CacheInsert(cx, s, re, depth) ==
    [cx EXCEPT !.cache = [@ EXCEPT ![s] = re],
               !.log = Append(@, Ev("insert", s, depth, cx.cache[s], re))]

\* Mutant of Cons: the triple goes behind the others
ConsBehind(change, weight, child, others) ==
    others \o << [change |-> change, weight |-> weight, child |-> child] >>

\* One (Change, f64, Possibility) triple in front of the others
Cons(change, weight, child, others) ==
    << [change |-> change, weight |-> weight, child |-> child] >> \o others

\* Mutant of CreateChildren: a change of weight 0 gets no child
CreateChildrenSkipZero(state, chs, cx, depth) ==
    IF chs = << >>
    THEN [children |-> << >>, cx |-> cx]
    ELSE IF Head(chs).weight = 0
    THEN CreateChildren(state, Tail(chs), cx, depth)
    ELSE The({ The({ [children |-> Cons(Head(chs).change, Head(chs).weight, one.p,
                                        rest.children),
                      cx       |-> rest.cx]
                     : rest \in {CreateChildren(state, Tail(chs), one.cx, depth)} })
               : one \in {Create(apply(state, Head(chs).change), Work(cx, 1), depth + 1)} })

\* The closure mapped over state.changes() in create and in expand: one
\* create(state.apply(change), depth + 1) per (weight, change), in order.
CreateChildren(state, chs, cx, depth) ==
    IF chs = << >>
    THEN [children |-> << >>, cx |-> cx]
    ELSE The({ The({ [children |-> Cons(Head(chs).change, Head(chs).weight, one.p,
                                        rest.children),
                      cx       |-> rest.cx]
                     : rest \in {CreateChildren(state, Tail(chs), one.cx, depth)} })
               : one \in {Create(apply(state, Head(chs).change), Work(cx, 1), depth + 1)} })

\* The tail of create (lines 124-136): Leaf or Branch, inserted into the cache
Finalize(state, value, r, depth) ==
    LET re == IF r.children = << >> THEN Leaf(state, value) ELSE Branch(state, r.children)
    IN [p |-> re, cx |-> CacheInsert(r.cx, state, re, depth)]

\* What create returns on a cache hit (lines 109-111)
CacheHit(state, cx, depth) ==
    [p  |-> cx.cache[state],
     cx |-> [cx EXCEPT !.log = Append(@, Ev("hit", state, depth,
                                            cx.cache[state], cx.cache[state]))]]

\* Mutant of Create: the Leaf made when contemplate is false is cached as well
CreateCachingLimited(state, cx, depth) ==
    IF cx.cache[state] # None
    THEN CacheHit(state, cx, depth)
    ELSE IF ~contemplate(state, depth)
    THEN Finalize(state, evaluate(state), [children |-> << >>, cx |-> Work(cx, 3)], depth)
    ELSE The({ Finalize(state, evaluate(state), r, depth)
               : r \in {CreateChildren(state, changes(state), Work(cx, 3), depth)} })

\* Possibility::create
Create(state, cx, depth) ==
    IF cx.cache[state] # None
    THEN CacheHit(state, cx, depth)
    ELSE IF ~contemplate(state, depth)
    THEN [p |-> Leaf(state, evaluate(state)), cx |-> Work(cx, 3)]
    ELSE The({ Finalize(state, evaluate(state), r, depth)
               : r \in {CreateChildren(state, changes(state), Work(cx, 3), depth)} })

\* The Branch arm of expand: child.expand(e, cache, depth + 1) for every child
ExpandChildren(children, cx, depth) ==
    IF children = << >>
    THEN [children |-> << >>, cx |-> cx]
    ELSE The({ The({ [children |-> Cons(Head(children).change, Head(children).weight,
                                        one.p, rest.children),
                      cx       |-> rest.cx]
                     : rest \in {ExpandChildren(Tail(children), one.cx, depth)} })
               : one \in {Expand(Head(children).child, cx, depth + 1)} })

\* Mutant of Upgrade: the Leaf becomes a Branch even without children
UpgradeAlways(p, r) ==
    [p |-> Branch(p.state, r.children), cx |-> r.cx]

\* The Leaf arm of expand (lines 152-159): a Leaf without children stays as it is
Upgrade(p, r) ==
    IF r.children = << >>
    THEN [p |-> p, cx |-> r.cx]
    ELSE [p |-> Branch(p.state, r.children), cx |-> r.cx]

\* Mutant of Expand: the expanded node is written back into the cache under
\* its state
ExpandWriteBack(p, cx, depth) ==
    IF ~contemplate(p.state, depth)
    THEN [p |-> p, cx |-> Work(cx, 1)]
    ELSE IF p.kind = "Leaf"
    THEN The({ The({ [p |-> x.p, cx |-> CacheInsert(x.cx, x.p.state, x.p, depth)]
                     : x \in {Upgrade(p, r)} })
               : r \in {CreateChildren(p.state, changes(p.state), Work(cx, 2), depth)} })
    ELSE The({ [p  |-> Branch(p.state, r.children),
                cx |-> CacheInsert(r.cx, p.state, Branch(p.state, r.children), depth)]
               : r \in {ExpandChildren(p.children, Work(cx, 1), depth)} })

\* Possibility::expand
Expand(p, cx, depth) ==
    IF ~contemplate(p.state, depth)
    THEN [p |-> p, cx |-> Work(cx, 1)]
    ELSE IF p.kind = "Leaf"
    THEN The({ Upgrade(p, r)
               : r \in {CreateChildren(p.state, changes(p.state), Work(cx, 2), depth)} })
    ELSE The({ [p |-> Branch(p.state, r.children), cx |-> r.cx]
               : r \in {ExpandChildren(p.children, Work(cx, 1), depth)} })

(***************************************************************************)
(* Possibility::evaluate.                                                  *)
(***************************************************************************)
\* The fold's step (lines 187-205): the first child seeds the accumulator.
\* acc is << >> for None and << v >> for Some(v).
FoldStep(md, acc, cur) ==
    IF acc = << >>
    THEN << cur >>
    ELSE IF md = "Maximize"
    THEN (IF cur > acc[1] THEN << cur >> ELSE acc)
    ELSE (IF cur < acc[1] THEN << cur >> ELSE acc)

\* children.into_iter().map(child.evaluate(depth + 1) * weight).fold(None, ..):
\* the map is lazy, so child i is evaluated and folded before child i + 1.
EvaluateChildren(children, cx, depth, md, acc) ==
    IF children = << >>
    THEN [children |-> << >>, cx |-> cx, acc |-> acc, scaled |-> << >>]
    ELSE The({ The({ [children |-> Cons(Head(children).change, Head(children).weight,
                                        one.p, rest.children),
                      cx       |-> rest.cx,
                      acc      |-> rest.acc,
                      scaled   |-> << one.val * Head(children).weight >> \o rest.scaled]
                     : rest \in {EvaluateChildren(Tail(children), one.cx, depth, md,
                                    FoldStep(md, acc, one.val * Head(children).weight))} })
               : one \in {Evaluate(Head(children).child, cx, depth + 1)} })

\* Mutant of Propagate: the state's own immediate score is added to the
\* extreme child's scaled value (the blend the comment at line 208 speaks of)
PropagateBlended(p, f) ==
    IF f.acc = << >>
    THEN [p   |-> Branch(p.state, f.children),
          cx  |-> [f.cx EXCEPT !.panic = "There is at least one child."],
          val |-> 0]
    ELSE [p   |-> Branch(p.state, f.children),
          cx  |-> f.cx,
          val |-> f.acc[1] + evaluate(p.state)]

\* The end of evaluate (lines 206-210): expect() on the fold's Option
Propagate(p, f) ==
    IF f.acc = << >>
    THEN [p   |-> Branch(p.state, f.children),
          cx  |-> [f.cx EXCEPT !.panic = "There is at least one child."],
          val |-> 0]
    ELSE [p |-> Branch(p.state, f.children), cx |-> f.cx, val |-> f.acc[1]]

\* The match of evaluate (lines 176-212) on the node as expand left it
EvaluateMatch(r0, depth) ==
    IF r0.p.kind = "Leaf"
    THEN [p |-> r0.p, cx |-> r0.cx, val |-> r0.p.value]
    ELSE The({ Propagate(r0.p, f)
               : f \in {EvaluateChildren(r0.p.children, Work(r0.cx, 1), depth,
                                         mode(r0.p.state), << >>)} })

\* Mutant of Evaluate: the node is not expanded before the match
EvaluateUnexpanded(p, cx, depth) ==
    EvaluateMatch([p |-> p, cx |-> Work(cx, 1)], depth)

\* Possibility::evaluate
Evaluate(p, cx, depth) ==
    IF contemplate(p.state, depth)
    THEN The({ EvaluateMatch(r0, depth) : r0 \in {Expand(p, Work(cx, 1), depth)} })
    ELSE EvaluateMatch([p |-> p, cx |-> Work(cx, 1)], depth)

(***************************************************************************)
(* Possibility::choose and Possibility::select.                            *)
(***************************************************************************)
RECURSIVE ChooseChildren(_, _), SortBy(_)

\* The for loop of choose: child.evaluate(e, cache, 1) * weight, pushed in order
ChooseChildren(children, cx) ==
    IF children = << >>
    THEN [children |-> << >>, cx |-> cx, heap |-> << >>]
    ELSE The({ The({ [children |-> Cons(Head(children).change, Head(children).weight,
                                        one.p, rest.children),
                      cx       |-> rest.cx,
                      heap     |-> << [value  |-> one.val * Head(children).weight,
                                       change |-> Head(children).change] >> \o rest.heap]
                     : rest \in {ChooseChildren(Tail(children), one.cx)} })
               : one \in {Evaluate(Head(children).child, cx, 1)} })

\* The comparator of heap.sort_by: Less (a goes first) exactly when b < a
Before(a, b) == b.value < a.value

\* Where the stable sort puts x in an already sorted sequence: after every
\* element it does not go before
InsertSorted(sorted, x) ==
    LET firsts == {i \in 1..Len(sorted) : Before(x, sorted[i])}
        k      == IF firsts = {} THEN Len(sorted) + 1
                  ELSE CHOOSE i \in firsts : \A j \in firsts : i <= j
    IN SubSeq(sorted, 1, k - 1) \o << x >> \o SubSeq(sorted, k, Len(sorted))

\* Vec::sort_by (stable) with the comparator above
SortBy(heap) ==
    IF heap = << >>
    THEN << >>
    ELSE The({ InsertSorted(s, heap[Len(heap)])
               : s \in {SortBy(SubSeq(heap, 1, Len(heap) - 1))} })

\* What a call hands back: Option<(Value, Change)> for choose, the value for
\* evaluate, the Possibility for create; heap is choose's vector before the sort.
Ret(some, value, change, heap, p) ==
    [some |-> some, value |-> value, change |-> change, heap |-> heap, p |-> p]

NoRet == Ret(FALSE, 0, 0, << >>, None)

\* heap.pop().map(|(value, change)| (value, change.clone()))
Pop(sorted, heap) ==
    IF sorted = << >>
    THEN NoRet
    ELSE Ret(TRUE, sorted[Len(sorted)].value, sorted[Len(sorted)].change, heap, None)

\* Mutant of ChooseBranch: choose moves the node on to its last child
ChooseBranchAdvancing(p, cx) ==
    The({ [p   |-> r.children[Len(r.children)].child,
           cx  |-> r.cx,
           ret |-> The({ Pop(s, r.heap) : s \in {SortBy(r.heap)} })]
          : r \in {ChooseChildren(p.children, cx)} })

\* The Branch arm of choose (lines 223-236)
ChooseBranch(p, cx) ==
    The({ [p   |-> Branch(p.state, r.children),
           cx  |-> r.cx,
           ret |-> The({ Pop(s, r.heap) : s \in {SortBy(r.heap)} })]
          : r \in {ChooseChildren(p.children, cx)} })

\* Mutant of ChooseMatch: a Leaf is answered with its own value and no Change
ChooseMatchLeafValue(r0) ==
    IF r0.p.kind = "Leaf"
    THEN [p |-> r0.p, cx |-> r0.cx, ret |-> Ret(TRUE, r0.p.value, 0, << >>, None)]
    ELSE ChooseBranch(r0.p, r0.cx)

\* The match of choose on the node as expand left it
ChooseMatch(r0) ==
    IF r0.p.kind = "Leaf"
    THEN [p |-> r0.p, cx |-> r0.cx, ret |-> NoRet]
    ELSE ChooseBranch(r0.p, r0.cx)

\* Possibility::choose
Choose(p, cx) ==
    The({ ChooseMatch(r0) : r0 \in {Expand(p, cx, 0)} })

\* The for loop of select: the children whose Change equals the given one
Matching(children, change) ==
    {i \in 1..Len(children) : children[i].change = change}

\* Mutant of SelectMatch: the node is replaced by its first child whenever some
\* child matches
SelectMatchFirstChild(r0, change) ==
    IF r0.p.kind = "Leaf"
    THEN [p |-> r0.p, cx |-> [r0.cx EXCEPT !.panic = "cannot select on leaf"]]
    ELSE IF Matching(r0.p.children, change) = {}
    THEN [p |-> r0.p, cx |-> r0.cx]
    ELSE [p |-> r0.p.children[1].child, cx |-> r0.cx]

\* Mutant of SelectMatch: select on a Leaf returns without a panic
SelectMatchQuietLeaf(r0, change) ==
    IF r0.p.kind = "Leaf"
    THEN [p |-> r0.p, cx |-> r0.cx]
    ELSE LET ix == Matching(r0.p.children, change)
         IN IF ix = {}
            THEN [p |-> r0.p, cx |-> r0.cx]
            ELSE [p  |-> r0.p.children[CHOOSE i \in ix : \A j \in ix : i <= j].child,
                  cx |-> r0.cx]

\* The match of select on the node as expand left it: the first matching child
\* replaces the node; with none the loop ends and select returns
SelectMatch(r0, change) ==
    IF r0.p.kind = "Leaf"
    THEN [p |-> r0.p, cx |-> [r0.cx EXCEPT !.panic = "cannot select on leaf"]]
    ELSE LET ix == Matching(r0.p.children, change)
         IN IF ix = {}
            THEN [p |-> r0.p, cx |-> r0.cx]
            ELSE [p  |-> r0.p.children[CHOOSE i \in ix : \A j \in ix : i <= j].child,
                  cx |-> r0.cx]

\* Possibility::select
Select(p, change, cx) ==
    The({ SelectMatch(r0, change) : r0 \in {Expand(p, cx, 0)} })

\* Possibility::state
StateOf(p) == p.state

(***************************************************************************)
(* The Solver facade and the session.                                      *)
(***************************************************************************)
\* Possibility::new
New(root, c) ==
    IF c[root] # None THEN c[root] ELSE Leaf(root, evaluate(root))

Call(op, change, depth, s) == [op |-> op, change |-> change, depth |-> depth, state |-> s]

\* Solver::new
Init ==
    /\ problem \in Problems
    /\ cache = EmptyCache
    /\ tree = New(problem.root, EmptyCache)
    /\ status = "ok"
    /\ call = Call("new", 0, 0, problem.root)
    /\ ret = NoRet
    /\ before = [tree |-> None, cache |-> EmptyCache,
                 call |-> Call("none", 0, 0, "-"), ret |-> NoRet]
    /\ log = << >>
    /\ served = [s \in States |-> None]
    /\ steps = 0
    /\ stack = << >>

\* The events of a log that are cache hits for a state
HitsOf(lg, s) == {i \in 1..Len(lg) : lg[i].ev = "hit" /\ lg[i].state = s}

\* served, brought up to date with the hits of a call's log
Serve(sv, lg) ==
    [s \in States |->
        IF sv[s] # None \/ HitsOf(lg, s) = {}
        THEN sv[s]
        ELSE lg[CHOOSE i \in HitsOf(lg, s) : \A j \in HitsOf(lg, s) : i <= j].new]

\* What every call leaves behind: the tree and cache it wrote, whether it
\* panicked, and the record of the call
Finish(r, c, rt) ==
    /\ tree' = r.p
    /\ cache' = r.cx.cache
    /\ status' = IF r.cx.panic # "" THEN "panic" ELSE "ok"
    /\ call' = c
    /\ ret' = rt
    /\ before' = [tree |-> tree, cache |-> cache, call |-> call, ret |-> ret]
    /\ log' = r.cx.log
    /\ served' = Serve(served, r.cx.log)
    /\ steps' = steps + 1
    /\ UNCHANGED << problem, stack >>

Ready == status = "ok" /\ steps < MaxSteps

\* Solver::choose
SolverChoose ==
    /\ Ready
    /\ \E r \in {Choose(tree, Cx(cache))} :
         Finish(r, Call("choose", 0, 0, StateOf(tree)), r.ret)

\* Solver::select
SolverSelect(change) ==
    /\ Ready
    /\ \E r \in {Select(tree, change, Cx(cache))} :
         Finish(r, Call("select", change, 0, StateOf(tree)), NoRet)

\* Solver::state
SolverState == StateOf(tree)

Next ==
    \/ SolverChoose
    \/ \E change \in Changes : SolverSelect(change)

Spec == Init /\ [][Next]_vars

\* Possibility::expand called on the Possibility at a given depth
ExpandCall(depth) ==
    /\ Ready
    /\ \E r \in {Expand(tree, Cx(cache), depth)} :
         Finish(r, Call("expand", 0, depth, StateOf(tree)), NoRet)

\* Possibility::evaluate called on the Possibility at a given depth
EvaluateCall(depth) ==
    /\ Ready
    /\ \E r \in {Evaluate(tree, Cx(cache), depth)} :
         Finish(r, Call("evaluate", 0, depth, StateOf(tree)),
                Ret(TRUE, r.val, 0, << >>, None))

\* Possibility::create called as expand and create call it: for the state a
\* change of the node's state leads to, one level below the node; the
\* Possibility it returns is handed to the caller and the tree is left alone
CreateCall(change, depth) ==
    /\ Ready
    /\ \E i \in 1..Len(changes(StateOf(tree))) : changes(StateOf(tree))[i].change = change
    /\ \E r \in {Create(apply(StateOf(tree), change), Cx(cache), depth + 1)} :
         Finish([p |-> tree, cx |-> r.cx],
                Call("create", change, depth + 1, apply(StateOf(tree), change)),
                Ret(TRUE, r.cx.work, 0, << >>, r.p))

NextPoss ==
    \/ SolverChoose
    \/ \E change \in Changes : SolverSelect(change)
    \/ \E depth \in 0..MaxDepth : ExpandCall(depth)
    \/ \E depth \in 0..MaxDepth : EvaluateCall(depth)
    \/ \E change \in Changes, depth \in 0..MaxDepth : CreateCall(change, depth)

\* The session in which the Possibility operations are called directly
SpecPoss == Init /\ [][NextPoss]_vars

\* The first child of a Branch that carries the given Change
ChildAt(p, change) ==
    CHOOSE i \in Matching(p.children, change) :
        \A j \in Matching(p.children, change) : i <= j

\* The Branch with one child replaced: the other children are not borrowed
\* and stay as they are
WithChild(p, i, child) ==
    Branch(p.state, [p.children EXCEPT ![i].child = child])

\* child.expand(e, cache, 1) on one child of the root Branch, as the Branch
\* arm of expand calls it
ExpandChild(change) ==
    /\ Ready
    /\ tree.kind = "Branch" /\ Matching(tree.children, change) # {}
    /\ \E r \in {Expand(tree.children[ChildAt(tree, change)].child, Cx(cache), 1)} :
         Finish([p |-> WithChild(tree, ChildAt(tree, change), r.p), cx |-> r.cx],
                Call("expand_child", change, 1,
                     StateOf(tree.children[ChildAt(tree, change)].child)),
                NoRet)

\* child.evaluate(e, cache, 1) on one child of the root Branch, as choose and
\* the fold of evaluate call it
EvaluateChild(change) ==
    /\ Ready
    /\ tree.kind = "Branch" /\ Matching(tree.children, change) # {}
    /\ \E r \in {Evaluate(tree.children[ChildAt(tree, change)].child, Cx(cache), 1)} :
         Finish([p |-> WithChild(tree, ChildAt(tree, change), r.p), cx |-> r.cx],
                Call("evaluate_child", change, 1,
                     StateOf(tree.children[ChildAt(tree, change)].child)),
                Ret(TRUE, r.val, 0, << >>, None))

NextCopy ==
    \/ \E change \in Changes : SolverSelect(change)
    \/ \E depth \in 0..MaxDepth : ExpandCall(depth)
    \/ \E change \in Changes : ExpandChild(change)
    \/ \E change \in Changes : EvaluateChild(change)

\* The session in which single copies inside the tree are expanded and
\* evaluated
SpecCopy == Init /\ [][NextCopy]_vars

(***************************************************************************)
(* The calls run frame by frame: every call of create, expand, evaluate,  *)
(* choose and select is a frame on the stack, and a step runs the         *)
(* innermost frame up to its next call or to its return.                  *)
(***************************************************************************)
\* The frame of a call that has just been entered.  p is self (None for
\* create), state the argument of create, change the argument of select; i,
\* kids, acc and heap are the locals of the loops.
Frame(fn, p, state, depth, change) ==
    [fn |-> fn, pc |-> "enter", p |-> p, state |-> state, depth |-> depth,
     change |-> change, i |-> 1, kids |-> << >>, acc |-> << >>, heap |-> << >>]

\* What a step of a frame comes to: it goes on inside the frame, calls, or
\* returns (p, val and ret are what it returns)
Goto(f, cx) ==
    [act |-> "goto", f |-> f, new |-> f, p |-> None, val |-> 0, ret |-> NoRet, cx |-> cx]

Push(f, new, cx) ==
    [act |-> "push", f |-> f, new |-> new, p |-> None, val |-> 0, ret |-> NoRet, cx |-> cx]

Return(f, p, val, rt, cx) ==
    [act |-> "ret", f |-> f, new |-> f, p |-> p, val |-> val, ret |-> rt, cx |-> cx]

\* The frame of create(state.apply(change), e, cache, depth + 1) for the i-th
\* element of changes()
CreateFrame(state, i, depth) ==
    Frame("create", None, apply(state, changes(state)[i].change), depth + 1, 0)

\* The position in changes() of the first element with the given Change
ChildIndex(state, change) ==
    CHOOSE i \in 1..Len(changes(state)) :
        /\ changes(state)[i].change = change
        /\ \A j \in 1..Len(changes(state)) : changes(state)[j].change = change => i <= j

\* One step of create
CreateStep(f, cx) ==
    IF f.pc = "enter"
    THEN IF cx.cache[f.state] # None
         THEN Return(f, CacheHit(f.state, cx, f.depth).p, 0, NoRet,
                     CacheHit(f.state, cx, f.depth).cx)
         ELSE IF ~contemplate(f.state, f.depth)
         THEN Return(f, Leaf(f.state, evaluate(f.state)), 0, NoRet, cx)
         ELSE Goto([f EXCEPT !.pc = "loop"], cx)
    ELSE IF f.i <= Len(changes(f.state))
         THEN Push(f, CreateFrame(f.state, f.i, f.depth), cx)
         ELSE Return(f, Finalize(f.state, evaluate(f.state),
                                 [children |-> f.kids, cx |-> cx], f.depth).p,
                     0, NoRet,
                     Finalize(f.state, evaluate(f.state),
                              [children |-> f.kids, cx |-> cx], f.depth).cx)

\* One step of expand
ExpandStep(f, cx) ==
    CASE f.pc = "enter" ->
            IF ~contemplate(f.p.state, f.depth)
            THEN Return(f, f.p, 0, NoRet, cx)
            ELSE Goto([f EXCEPT !.pc = IF f.p.kind = "Leaf" THEN "leaf" ELSE "branch"], cx)
      [] f.pc = "leaf" ->
            IF f.i <= Len(changes(f.p.state))
            THEN Push(f, CreateFrame(f.p.state, f.i, f.depth), cx)
            ELSE Return(f, Upgrade(f.p, [children |-> f.kids, cx |-> cx]).p, 0, NoRet, cx)
      [] f.pc = "branch" ->
            IF f.i <= Len(f.p.children)
            THEN Push(f, Frame("expand", f.p.children[f.i].child,
                               StateOf(f.p.children[f.i].child), f.depth + 1, 0), cx)
            ELSE Return(f, Branch(f.p.state, f.kids), 0, NoRet, cx)

\* One step of evaluate
EvaluateStep(f, cx) ==
    CASE f.pc = "enter" ->
            IF contemplate(f.p.state, f.depth)
            THEN Push([f EXCEPT !.pc = "match"],
                      Frame("expand", f.p, StateOf(f.p), f.depth, 0), cx)
            ELSE Goto([f EXCEPT !.pc = "match"], cx)
      [] f.pc = "match" ->
            IF f.p.kind = "Leaf"
            THEN Return(f, f.p, f.p.value, NoRet, cx)
            ELSE Goto([f EXCEPT !.pc = "fold"], cx)
      [] f.pc = "fold" ->
            IF f.i <= Len(f.p.children)
            THEN Push(f, Frame("evaluate", f.p.children[f.i].child,
                               StateOf(f.p.children[f.i].child), f.depth + 1, 0), cx)
            ELSE Return(f, Propagate(f.p, [children |-> f.kids, cx |-> cx, acc |-> f.acc]).p,
                        Propagate(f.p, [children |-> f.kids, cx |-> cx, acc |-> f.acc]).val,
                        NoRet,
                        Propagate(f.p, [children |-> f.kids, cx |-> cx, acc |-> f.acc]).cx)

\* One step of choose
ChooseStep(f, cx) ==
    CASE f.pc = "enter" ->
            Push([f EXCEPT !.pc = "match"], Frame("expand", f.p, StateOf(f.p), 0, 0), cx)
      [] f.pc = "match" ->
            IF f.p.kind = "Leaf"
            THEN Return(f, f.p, 0, NoRet, cx)
            ELSE Goto([f EXCEPT !.pc = "loop"], cx)
      [] f.pc = "loop" ->
            IF f.i <= Len(f.p.children)
            THEN Push(f, Frame("evaluate", f.p.children[f.i].child,
                               StateOf(f.p.children[f.i].child), 1, 0), cx)
            ELSE Return(f, Branch(f.p.state, f.kids), 0, Pop(SortBy(f.heap), f.heap), cx)

\* One step of select
SelectStep(f, cx) ==
    IF f.pc = "enter"
    THEN Push([f EXCEPT !.pc = "match"], Frame("expand", f.p, StateOf(f.p), 0, 0), cx)
    ELSE Return(f, SelectMatch([p |-> f.p, cx |-> cx], f.change).p, 0, NoRet,
                SelectMatch([p |-> f.p, cx |-> cx], f.change).cx)

\* The caller's frame after the call it made has returned p and val
Resume(f, p, val) ==
    CASE f.pc = "match" -> [f EXCEPT !.p = p]
      [] f.fn = "create" ->
            [f EXCEPT !.i = @ + 1,
                      !.kids = @ \o Cons(changes(f.state)[f.i].change,
                                         changes(f.state)[f.i].weight, p, << >>)]
      [] f.fn = "expand" /\ f.pc = "leaf" ->
            [f EXCEPT !.i = @ + 1,
                      !.kids = @ \o Cons(changes(f.p.state)[f.i].change,
                                         changes(f.p.state)[f.i].weight, p, << >>)]
      [] f.fn = "expand" /\ f.pc = "branch" ->
            [f EXCEPT !.i = @ + 1,
                      !.kids = @ \o Cons(f.p.children[f.i].change,
                                         f.p.children[f.i].weight, p, << >>)]
      [] f.fn = "evaluate" /\ f.pc = "fold" ->
            [f EXCEPT !.i = @ + 1,
                      !.kids = @ \o Cons(f.p.children[f.i].change,
                                         f.p.children[f.i].weight, p, << >>),
                      !.acc = FoldStep(mode(f.p.state), @, val * f.p.children[f.i].weight)]
      [] f.fn = "choose" /\ f.pc = "loop" ->
            [f EXCEPT !.i = @ + 1,
                      !.kids = @ \o Cons(f.p.children[f.i].change,
                                         f.p.children[f.i].weight, p, << >>),
                      !.heap = @ \o << [value  |-> val * f.p.children[f.i].weight,
                                        change |-> f.p.children[f.i].change] >>]

\* The innermost frame
Top == stack[Len(stack)]

\* The cache and the log as the running call has them
CxNow == [cache |-> cache, log |-> log, work |-> 0, panic |-> ""]

\* What the outermost call hands back to the session
Returned(o) ==
    CASE call.op = "choose"   -> o.ret
      [] call.op = "evaluate" -> Ret(TRUE, o.val, 0, << >>, None)
      [] call.op = "create"   -> Ret(TRUE, 0, 0, << >>, o.p)
      [] OTHER                -> NoRet

\* The effect of a step on the session: the stack grows by the frame of a
\* call, shrinks by the frame that returns, and is unwound by a panic; the
\* return of the outermost frame writes the tree and ends the call
Apply(o) ==
    /\ cache' = o.cx.cache
    /\ log' = o.cx.log
    /\ UNCHANGED << problem, call, before, steps >>
    /\ CASE o.act = "goto" ->
              /\ stack' = [stack EXCEPT ![Len(stack)] = o.f]
              /\ UNCHANGED << tree, status, ret, served >>
         [] o.act = "push" ->
              /\ o.new.depth <= MaxRunDepth
              /\ stack' = [stack EXCEPT ![Len(stack)] = o.f] \o << o.new >>
              /\ UNCHANGED << tree, status, ret, served >>
         [] o.act = "ret" /\ o.cx.panic # "" ->
              /\ stack' = << >>
              /\ status' = "panic"
              /\ tree' = IF Len(stack) = 1 THEN o.p ELSE tree
              /\ served' = Serve(served, o.cx.log)
              /\ UNCHANGED ret
         [] o.act = "ret" /\ o.cx.panic = "" /\ Len(stack) = 1 ->
              /\ stack' = << >>
              /\ tree' = IF call.op = "create" THEN tree ELSE o.p
              /\ ret' = Returned(o)
              /\ served' = Serve(served, o.cx.log)
              /\ UNCHANGED status
         [] o.act = "ret" /\ o.cx.panic = "" /\ Len(stack) > 1 ->
              /\ stack' = SubSeq(stack, 1, Len(stack) - 2)
                            \o << Resume(stack[Len(stack) - 1], o.p, o.val) >>
              /\ UNCHANGED << tree, status, ret, served >>

RunCreate == stack # << >> /\ Top.fn = "create" /\ Apply(CreateStep(Top, CxNow))

RunExpand == stack # << >> /\ Top.fn = "expand" /\ Apply(ExpandStep(Top, CxNow))

RunEvaluate == stack # << >> /\ Top.fn = "evaluate" /\ Apply(EvaluateStep(Top, CxNow))

RunChoose == stack # << >> /\ Top.fn = "choose" /\ Apply(ChooseStep(Top, CxNow))

RunSelect == stack # << >> /\ Top.fn = "select" /\ Apply(SelectStep(Top, CxNow))

\* The running call goes on
Run == RunCreate \/ RunExpand \/ RunEvaluate \/ RunChoose \/ RunSelect

\* A call is made: its frame is the whole stack
Begin(c, f) ==
    /\ status = "ok" /\ steps < MaxRuns /\ stack = << >>
    /\ stack' = << f >>
    /\ call' = c
    /\ ret' = NoRet
    /\ before' = [tree |-> tree, cache |-> cache, call |-> call, ret |-> ret]
    /\ log' = << >>
    /\ steps' = steps + 1
    /\ UNCHANGED << problem, tree, cache, status, served >>

BeginChoose ==
    Begin(Call("choose", 0, 0, StateOf(tree)), Frame("choose", tree, StateOf(tree), 0, 0))

BeginSelect(change) ==
    Begin(Call("select", change, 0, StateOf(tree)),
          Frame("select", tree, StateOf(tree), 0, change))

\* expand, evaluate and create are begun for the root at depth 0; at the
\* depths below they run as the frames these calls push
BeginExpand ==
    Begin(Call("expand", 0, 0, StateOf(tree)),
          Frame("expand", tree, StateOf(tree), 0, 0))

BeginEvaluate ==
    Begin(Call("evaluate", 0, 0, StateOf(tree)),
          Frame("evaluate", tree, StateOf(tree), 0, 0))

BeginCreate(change) ==
    /\ \E i \in 1..Len(changes(StateOf(tree))) : changes(StateOf(tree))[i].change = change
    /\ Begin(Call("create", change, 1, apply(StateOf(tree), change)),
             CreateFrame(StateOf(tree), ChildIndex(StateOf(tree), change), 0))

NextRun ==
    \/ BeginChoose
    \/ \E change \in Changes : BeginSelect(change)
    \/ BeginExpand
    \/ BeginEvaluate
    \/ \E change \in Changes : BeginCreate(change)
    \/ RunCreate
    \/ RunExpand
    \/ RunEvaluate
    \/ RunChoose
    \/ RunSelect

\* The session run frame by frame; the code is sequential, so a call that can
\* take a step takes it
SpecRun == Init /\ [][NextRun]_vars /\ WF_vars(Run)

(***************************************************************************)
(* Properties.                                                             *)
(***************************************************************************)
\* The Change values changes() yields for a state
ChangesOf(s) == {changes(s)[i].change : i \in 1..Len(changes(s))}

\* The last call was op, made on the root as it was in before.tree
Called(op) == call.op = op /\ call.state = StateOf(before.tree)

\* C1: for a root with at least one change and contemplate(root, 0) true,
\* choose returns (v, c) with v the largest scaled child value and c the Change
\* of that child; in the toy problem choose on A returns (1, change to B).
ChooseReturnsLargest ==
    (Called("choose") /\ changes(call.state) # << >> /\ contemplate(call.state, 0))
        => /\ status = "ok"
           /\ ret.some
           /\ \A i \in 1..Len(ret.heap) : ret.heap[i].value <= ret.value
           /\ \E i \in 1..Len(ret.heap) :
                ret.heap[i] = [value |-> ret.value, change |-> ret.change]
           /\ (problem = Toy /\ call.state = "A") => (ret.value = 1 /\ ret.change = 1)

\* C2: after select(c) with c among changes() of the root and
\* contemplate(root, 0) true, state() equals old_state.apply(c).
SelectionConsistency ==
    (Called("select") /\ call.change \in ChangesOf(call.state) /\ contemplate(call.state, 0))
        => /\ status = "ok"
           /\ SolverState = apply(StateOf(before.tree), call.change)

\* C2 witness: a second select moved the root to a child that was taken from
\* the cache when its parent was created.
SelectedCachedChild ==
    /\ Called("select") /\ status = "ok" /\ steps >= 2
    /\ call.change \in ChangesOf(call.state)
    /\ SolverState # call.state
    /\ before.cache[SolverState] = tree
    /\ problem = Diamond /\ call.state = "C" /\ SolverState = "D"

\* C3: select with a Change that matches no child of the expanded Branch
\* fails; it never returns normally.
SelectUnknownChangeFails ==
    (Called("select") /\ changes(call.state) # << >> /\ contemplate(call.state, 0)
        /\ call.change \notin ChangesOf(call.state))
        => status = "panic"

\* C4: choose on a root whose changes() is empty returns None.
NoMoveTermination ==
    (Called("choose") /\ changes(call.state) = << >>)
        => (status = "ok" /\ ~ret.some /\ ret = NoRet)

\* C4 witness: choose on a terminal root reached by an earlier select.
ChoseOnTerminal ==
    /\ Called("choose") /\ changes(call.state) = << >>
    /\ steps >= 2 /\ call.state # problem.root /\ ~ret.some

\* C6: select on a node that is still a Leaf after the expand at depth 0
\* panics and does not replace the node.
SelectOnLeafFails ==
    (Called("select") /\ Expand(before.tree, Cx(before.cache), 0).p.kind = "Leaf")
        => (status = "panic" /\ tree = before.tree /\ cache = before.cache)

\* C6 witness: select on a root with changes whose contemplate at depth 0 is
\* false, so that expand left the Leaf alone.
SelectedOnGuardedLeaf ==
    /\ Called("select") /\ status = "panic"
    /\ changes(call.state) # << >> /\ ~contemplate(call.state, 0)
    /\ tree = before.tree /\ tree.kind = "Leaf"

\* The largest / smallest element of a non-empty set of integers
Largest(S) == CHOOSE x \in S : \A y \in S : y <= x

Smallest(S) == CHOOSE x \in S : \A y \in S : x <= y

Extreme(md, S) == IF md = "Maximize" THEN Largest(S) ELSE Smallest(S)

\* The minimax value of a tree as it stands: a Leaf's stored value, and for a
\* Branch the extreme, by the mode of its state, of its children's values
\* scaled by their weights
RECURSIVE Minimax(_)
Minimax(p) ==
    IF p.kind = "Leaf"
    THEN p.value
    ELSE Extreme(mode(p.state),
                 {Minimax(p.children[i].child) * p.children[i].weight
                    : i \in 1..Len(p.children)})

\* The scaled values evaluate(child, depth + 1) * weight that an evaluate call
\* at the given depth computes for the children of the node
ScaledValues(p, c, depth) ==
    LET r0 == IF contemplate(p.state, depth)
              THEN Expand(p, Cx(c), depth)
              ELSE [p |-> p, cx |-> Cx(c)]
        f  == EvaluateChildren(r0.p.children, r0.cx, depth, mode(r0.p.state), << >>)
    IN {f.scaled[i] : i \in 1..Len(f.scaled)}

Moves(p) ==
    [i \in 1..Len(p.children) |-> << p.children[i].change, p.children[i].weight >>]

\* The (Change, weight) pairs changes() yields for a state, in order
MovesOf(s) ==
    [i \in 1..Len(changes(s)) |-> << changes(s)[i].change, changes(s)[i].weight >>]

\* C7 as claimed: for every state with a non-empty changes(), after one expand
\* the Possibility is a Branch with the children changes() yields.
ExpandMakesBranch ==
    (Called("expand") /\ changes(call.state) # << >>)
        => (status = "ok" /\ tree.kind = "Branch" /\ Moves(tree) = MovesOf(call.state))

\* C7 amended: that holds when contemplate(state, depth) is true at the depth
\* of the call; when it is false, expand leaves the Possibility as it was.
ExpandMakesBranchIfContemplated ==
    (Called("expand") /\ changes(call.state) # << >>)
        => /\ status = "ok"
           /\ StateOf(tree) = call.state
           /\ contemplate(call.state, call.depth)
                => (tree.kind = "Branch" /\ Moves(tree) = MovesOf(call.state))
           /\ ~contemplate(call.state, call.depth)
                => (tree = before.tree /\ cache = before.cache)

\* C7 witness: an expand below depth 0 turned a Leaf into a Branch.
ExpandedLeafIntoBranch ==
    /\ Called("expand") /\ call.depth >= 1 /\ contemplate(call.state, call.depth)
    /\ before.tree.kind = "Leaf" /\ tree.kind = "Branch"
    /\ Len(tree.children) = Len(changes(call.state))

\* The value evaluate propagates from each child of a Branch at the given
\* depth, each child taken as it stands with the cache as it stands
ChildValues(p, c, depth) ==
    [i \in 1..Len(p.children) |-> Evaluate(p.children[i].child, Cx(c), depth + 1).val]

\* The last two calls were expand at the same depth, the second on a Branch
ExpandedTwice ==
    /\ Called("expand") /\ before.call.op = "expand"
    /\ before.call.depth = call.depth
    /\ before.tree.kind = "Branch"

\* C8: a second expand at the same depth on an already expanded Branch changes
\* neither the (Change, weight) sequence of its children nor the value that
\* evaluate propagates from each child.
ExpandIdempotent ==
    ExpandedTwice
        => /\ status = "ok"
           /\ tree.kind = "Branch"
           /\ Moves(tree) = Moves(before.tree)
           /\ ChildValues(tree, cache, call.depth)
                = ChildValues(before.tree, before.cache, call.depth)

\* The events of the last call's log of a kind
Events(kind) == {i \in 1..Len(log) : log[i].ev = kind}

\* C9: once a state is in the cache, the Possibility stored under it is never
\* replaced by a different one, whatever the transition graph and contemplate.
CacheImmutable ==
    /\ \A i \in Events("insert") : log[i].old = None \/ log[i].old = log[i].new
    /\ \A s \in States : before.cache[s] # None => cache[s] = before.cache[s]

\* C10: create for a cached state returns the cached Possibility, leaves the
\* cache unchanged and calls neither evaluate, contemplate, changes nor apply;
\* so any two create calls for equal states made while the state is cached
\* return identical subtrees.
CacheHitCoherence ==
    /\ (call.op = "create" /\ before.cache[call.state] # None)
            => /\ ret.p = before.cache[call.state]
               /\ cache = before.cache
               /\ ret.value = 0
               /\ Len(log) = 1
    /\ \A i \in Events("hit") : log[i].new = log[i].old
    /\ \A i \in Events("hit") : log[i].new = served[log[i].state]

\* The first part of C10 alone: what one create call does on a cache hit
CacheHitShortCircuits ==
    /\ (call.op = "create" /\ before.cache[call.state] # None)
            => /\ ret.p = before.cache[call.state]
               /\ cache = before.cache
               /\ ret.value = 0
               /\ Len(log) = 1
    /\ \A i \in Events("hit") : log[i].new = log[i].old

(***************************************************************************)
(* The nodes of a tree and the contemplate guard.                          *)
(***************************************************************************)
\* Every node of a tree whose root sits at the given depth, with its depth
RECURSIVE Nodes(_, _)
Nodes(p, depth) ==
    {[p |-> p, depth |-> depth]}
        \cup UNION {Nodes(p.children[i].child, depth + 1) : i \in 1..Len(p.children)}

\* The nodes of the live tree and of every cached Possibility
AllNodes ==
    Nodes(tree, 0) \cup UNION {Nodes(cache[s], 0) : s \in {t \in States : cache[t] # None}}

\* C11: a node of the Solver's tree that sits at a depth where
\* contemplate(state, depth) is false is a Leaf, and evaluate propagates
\* evaluate(state) for it, also when it was copied from a cache entry created
\* at another depth.
ContemplateGuard ==
    \A n \in Nodes(tree, 0) :
        ~contemplate(n.p.state, n.depth)
            => /\ n.p.kind = "Leaf"
               /\ Evaluate(n.p, Cx(cache), n.depth).val = evaluate(n.p.state)

\* C12: no Branch of the live tree or of a cached Possibility has zero
\* children, no node whose state has no changes is a Branch, and the only
\* panic ever raised is the one of select on a Leaf.
NoEmptyBranch ==
    /\ \A n \in AllNodes :
          n.p.kind = "Branch" => (n.p.children # << >> /\ changes(n.p.state) # << >>)
    /\ status = "panic"
          => (call.op = "select" /\ Expand(before.tree, Cx(before.cache), 0).p.kind = "Leaf")

\* C12 witness: evaluate ran over a Branch that has terminal states below it,
\* with a Branch in the cache.
EvaluatedOverTerminals ==
    /\ Called("evaluate") /\ status = "ok" /\ tree.kind = "Branch"
    /\ \E n \in Nodes(tree, 0) : changes(n.p.state) = << >> /\ n.p.kind = "Leaf"
    /\ \E s \in States : cache[s].kind = "Branch"

\* C13: create never inserts a Leaf made because contemplate(state, depth) was
\* false: every insert is made at a (state, depth) that contemplate accepts,
\* and every Leaf stored directly under a cache key is a state without changes.
LimitedLeavesNotCached ==
    /\ \A s \in States : cache[s].kind = "Leaf" => changes(s) = << >>
    /\ \A i \in Events("insert") :
          /\ contemplate(log[i].state, log[i].depth)
          /\ log[i].new.kind = "Leaf" => changes(log[i].state) = << >>

\* C13 witness: create returned a Leaf for a state that has changes, and the
\* cache has no entry for that state.
LimitedLeafLeftUncached ==
    /\ call.op = "create" /\ status = "ok"
    /\ ret.p.kind = "Leaf" /\ changes(call.state) # << >>
    /\ ~contemplate(call.state, call.depth)
    /\ cache[call.state] = None /\ cache = before.cache

\* The last call was made on one child of the root Branch
OnChild == call.op \in {"expand_child", "evaluate_child"}

\* C14: expanding or evaluating a copy of a cached state S inside the tree
\* leaves the cache entry under S as it was, and leaves every other subtree of
\* the tree, with the copies of S in it, as it was.
CopyOutSemantics ==
    (OnChild /\ before.cache[call.state] # None)
        => /\ status = "ok"
           /\ cache[call.state] = before.cache[call.state]
           /\ tree.kind = "Branch" /\ StateOf(tree) = StateOf(before.tree)
           /\ Len(tree.children) = Len(before.tree.children)
           /\ \A j \in 1..Len(tree.children) :
                 j # ChildAt(before.tree, call.change)
                    => tree.children[j] = before.tree.children[j]

\* C14 witness: the expand of a copy grew the copy, the cache entry of its
\* state stayed behind, and another subtree holds a copy of the same state.
CopyExpandedAlone ==
    /\ call.op = "expand_child" /\ status = "ok"
    /\ before.cache[call.state] # None
    /\ tree.children[ChildAt(before.tree, call.change)].child
          # before.tree.children[ChildAt(before.tree, call.change)].child
    /\ cache[call.state] = before.cache[call.state]
    /\ cache[call.state] # tree.children[ChildAt(before.tree, call.change)].child
    /\ \E j \in 1..Len(tree.children) :
          /\ j # ChildAt(before.tree, call.change)
          /\ \E n \in Nodes(tree.children[j].child, 1) : n.p.state = call.state

\* The states that are keys of a cache
CacheKeys(c) == {s \in States : c[s] # None}

\* C15: no Solver::choose or Solver::select call removes a key from the
\* cache: the set of cached states only grows, so a state that is a key at
\* one point of the session is a key at every later point.
CacheNeverEvicts ==
    [][CacheKeys(cache) \subseteq CacheKeys(cache')]_vars

\* C15 witness: a second call added keys to a cache that already had some,
\* and kept those.
CacheGrewAgain ==
    /\ steps >= 2 /\ call.op \in {"choose", "select"}
    /\ CacheKeys(before.cache) # {}
    /\ CacheKeys(before.cache) \subseteq CacheKeys(cache)
    /\ CacheKeys(cache) # CacheKeys(before.cache)

\* The positions of choose's vector that hold the largest scaled value
Maximal(heap) ==
    {i \in 1..Len(heap) : \A j \in 1..Len(heap) : heap[j].value <= heap[i].value}

\* C16: when several children of the root share the maximal scaled value,
\* choose returns that value with the Change of the last of them in the order
\* of changes().
TieBreakLastMaximal ==
    (Called("choose") /\ ret.some /\ Cardinality(Maximal(ret.heap)) >= 2)
        => /\ ret.change = ret.heap[Largest(Maximal(ret.heap))].change
           /\ ret.value = ret.heap[Largest(Maximal(ret.heap))].value

\* The last two calls were Solver::choose, with no select in between
ChoseTwice == Called("choose") /\ before.call.op = "choose"

\* C19: the second of two consecutive Solver::choose calls returns what the
\* first returned: None both times, or the same (value, Change) pair.
ChooseRepeatable ==
    ChoseTwice
        => /\ status = "ok"
           /\ ret.some = before.ret.some
           /\ ret.value = before.ret.value
           /\ ret.change = before.ret.change

\* C19 witness: the first choose of a session expanded the root and filled the
\* cache, and the second returned the same pair.
ChoseSamePairAgain ==
    /\ ChoseTwice /\ steps = 2
    /\ ret.some /\ ret = before.ret
    /\ tree.kind = "Branch" /\ CacheKeys(cache) # {}

\* C20: Solver::choose leaves Solver::state() as it was; state() changes only
\* in a Solver::select whose Change is one of the root's changes(), and then
\* to the state that Change leads to.
ChooseKeepsRoot ==
    [][/\ call'.op = "choose" => SolverState' = SolverState
       /\ SolverState' # SolverState
            => /\ call'.op = "select"
               /\ call'.change \in ChangesOf(SolverState)
               /\ SolverState' = apply(SolverState, call'.change)]_vars

\* C20 witness: after a select moved the root, a choose expanded the new root,
\* returned a pair and left state() where the select had put it.
ChoseWithoutMoving ==
    /\ Called("choose") /\ ret.some /\ status = "ok"
    /\ before.call.op = "select" /\ StateOf(before.tree) # problem.root
    /\ tree # before.tree
    /\ SolverState = StateOf(before.tree)

\* C18: every Branch of the live tree and of every cached Possibility has, in
\* order, the (Change, weight) pairs changes() yields for its state, each
\* child's state is parent_state.apply(change), and every cache entry is stored
\* under the state of the Possibility it holds.
StructuralInvariant ==
    /\ \A n \in AllNodes :
          n.p.kind = "Branch"
            => /\ Moves(n.p) = MovesOf(n.p.state)
               /\ \A i \in 1..Len(n.p.children) :
                     StateOf(n.p.children[i].child)
                        = apply(n.p.state, n.p.children[i].change)
    /\ \A s \in CacheKeys(cache) : StateOf(cache[s]) = s

\* C18 witness: select made a child with several children the root, with
\* Branches of several children in the cache.
SelectedIntoBranch ==
    /\ Called("select") /\ status = "ok"
    /\ StateOf(tree) # StateOf(before.tree)
    /\ tree.kind = "Branch" /\ Len(tree.children) >= 2
    /\ \E s \in CacheKeys(cache) :
          cache[s].kind = "Branch" /\ Len(cache[s].children) >= 2 /\ s # StateOf(tree)

\* What the call that has just returned comes to when it is computed in one
\* piece from the tree and the cache it was made on
InOnePiece ==
    CASE call.op = "choose"   -> Choose(before.tree, Cx(before.cache))
      [] call.op = "select"   -> Select(before.tree, call.change, Cx(before.cache))
      [] call.op = "expand"   -> Expand(before.tree, Cx(before.cache), call.depth)
      [] call.op = "evaluate" -> Evaluate(before.tree, Cx(before.cache), call.depth)
      [] call.op = "create"   -> Create(call.state, Cx(before.cache), call.depth)

\* The frame-by-frame run of a call ends with the tree, the cache and the log
\* that the call computed in one piece ends with
RunAgrees ==
    (stack = << >> /\ steps > 0)
        => /\ cache = InOnePiece.cx.cache
           /\ log = InOnePiece.cx.log
           /\ (status = "panic") = (InOnePiece.cx.panic # "")
           /\ call.op # "create" => tree = InOnePiece.p
           /\ call.op = "create" => (tree = before.tree /\ ret.p = InOnePiece.p)
           /\ call.op = "choose" => ret = InOnePiece.ret
           /\ call.op = "evaluate" => ret.value = InOnePiece.val

\* C17: on the finite problems, whose transition graph is acyclic or whose
\* contemplate is false from a bounded depth on, every call of create, expand,
\* evaluate, choose and select that is made returns (or panics); Solver::choose
\* in particular returns.
Termination ==
    /\ (stack # << >>) ~> (stack = << >>)
    /\ (stack # << >> /\ call.op = "choose") ~> (stack = << >> /\ call.op = "choose")

\* C17 witness: choose, run frame by frame on the root of the acyclic problem
\* with the transposition, has returned a pair.
ChooseRanToCompletion ==
    /\ stack = << >> /\ call.op = "choose" /\ status = "ok"
    /\ problem = Diamond /\ ret.some
    /\ tree.kind = "Branch" /\ CacheKeys(cache) # {}

====
